---- MODULE Spec2Model ----
(***************************************************************************)
(* A model of nyooom's observable.js: the Observable container (cancelable *)
(* "change" event, batched "changed" event delivered from a microtask,     *)
(* adoption of nested Observables, when() promises, property() states)     *)
(* and the PropertyState adapter; and the State family beside it: the     *)
(* WriteableState, and the ComputedState with its dirty-tracking, its      *)
(* cached input values and its orphan detection.                           *)
(*                                                                         *)
(* JavaScript values are encoded as strings: the primitives "a" and "b",   *)
(* "undefined", and the names of the Observable objects.  Property keys    *)
(* are strings ("p", "q") or symbols ("@s").  An Observable is named by    *)
(* an element of Obs; every private field #f of the class is a variable f  *)
(* that maps each Observable to the value of its field.  The values of     *)
(* the States are numbers, so that a compute function can be arithmetic:   *)
(* undefined and NaN are the two numbers below zero.                       *)
(***************************************************************************)
EXTENDS Integers, Sequences, FiniteSets, TLC

\* ------------------------------------------------------------------ bounds

\* most changes the environment lets accumulate in one queue by direct writes
MaxQueue == 2
\* most promises when() creates in one behaviour
MaxPromises == 2

\* ------------------------------------------------------------------ values

\* the Observable objects of a behaviour
Obs == {"A", "B"}

\* property keys: strings and symbols (Change.property is string|symbol)
StringKeys == {"p", "q"}
SymbolKeys == {"@s"}
Keys == StringKeys \cup SymbolKeys

Undefined == "undefined"
Prim == {"a", "b"}
Val == Prim \cup {Undefined} \cup Obs

\* value instanceof Observable
IsObservable(v) == v \in Obs

\* the actors that appear as Change.source
NoSource == [kind |-> "undefined", obs |-> "-", property |-> "-"]
ValuesProxy(o) == [kind |-> "values", obs |-> o, property |-> "-"]
ObservableSource(o) == [kind |-> "observable", obs |-> o, property |-> "-"]
StateSource(o, p) == [kind |-> "state", obs |-> o, property |-> p]

\* a Change record
Change(property, from, to, mutation, source) ==
    [property |-> property, from |-> from, to |-> to,
     mutation |-> mutation, source |-> source]

\* the value a promise is settled with: a plain value or a Change record
NotSettled == [count |-> 0, kind |-> "none", value |-> Undefined]

\* the State objects of a behaviour: the WriteableStates made by
\* State.value and the ComputedStates made by State.compute and map
Writeable == {"x", "y"}
Computed == {"c", "d", "e"}
States == Writeable \cup Computed

\* the order in which the ComputedStates are constructed
ConstructionOrder == <<"c", "d", "e">>

\* the numbers that stand for undefined and for NaN
Undef == -1
NaN == -2

\* what deref() returns for a dead or revoked ref
None == "none"

\* an object of the application that a writer names as the source
AppSource == [kind |-> "application", obs |-> "-", property |-> "-"]

VARIABLES
    target,           \* #target: the backing store, Obs -> Keys -> Val
    sameMode,         \* the same(a, b) predicate in force: "identity" or "never"
    trackChildren,    \* #trackChildren
    queue,            \* #queue: the pending Change records
    microTaskQueued,  \* #microTaskQueued
    tasks,            \* the host's microtask queue: the Observables whose flush is pending
    nested,           \* #nested: child -> the handlers map (has: entry exists, props: its keys)
    listeners,        \* the adoption handlers registered for "changed" on each Observable
    veto,             \* the properties whose "change" event the application's listener cancels
    promises,         \* #promises: property -> pending promise (0: no entry)
    nextPromise,      \* the identity of the next promise to be created
    settled,          \* per promise: how often its callback ran and with what
    states,           \* #states: property -> memoized PropertyState ("none", "rw", "ro")
    stateId,          \* #states: the identity of the memoized PropertyState (0: no entry)
    returned,         \* history: the identities that property() returned, per property
    last,             \* the operation the last step performed and what it returned
    firedChange,      \* the "change" events the last step dispatched
    firedChanged,     \* the "changed" events the last step dispatched
    notified,         \* the PropertyState "changed" events the last step dispatched
    byProperty,       \* what a "changed" listener read as event.changesByProperty, per event
    observed,         \* what a "change" listener found stored and queued, per event
    tickPure,         \* history: since the last deferred flush, accepted writes and nothing else
    sinceFlush,       \* history: the Changes accepted since the last flush of either kind
    valueKey,         \* State[valueKey]: the stored value of each State
    state,            \* ComputedState.#state: "dirty", "clean" or "orphaned"
    values,           \* ComputedState.#values: the input values of the last computation
    inputs,           \* ComputedState.#inputs: the States each ref was created over
    revoked,          \* the keys of #inputs whose RevocableRef has been revoked
    built,            \* the ComputedStates that have been constructed
    held,             \* the States the application still holds a reference to
    collected,        \* the States the garbage collector has reclaimed
    aborts,           \* the collected States whose collectedSignal has not fired yet
    stateOp,          \* the State operation the last step performed and what it returned
    stateChanged,     \* the State "changed" events the last step dispatched
    orphanedEvents,   \* the "orphaned" events the last step dispatched
    invoked           \* the calls of compute functions the last step made

vars == <<target, sameMode, trackChildren, queue, microTaskQueued, tasks, nested,
          listeners, veto, promises, nextPromise, settled, states, stateId,
          returned, last, firedChange, firedChanged, notified, byProperty, observed, tickPure,
          sinceFlush, valueKey, state, values, inputs, revoked, built, held, collected,
          aborts, stateOp, stateChanged, orphanedEvents, invoked>>

\* the variables of the State family
stateVars == <<valueKey, state, values, inputs, revoked, built, held, collected,
               aborts, stateOp, stateChanged, orphanedEvents, invoked>>

\* the variables of the Observables
observableVars == <<target, sameMode, trackChildren, queue, microTaskQueued, tasks,
                    nested, listeners, veto, promises, nextPromise, settled, states,
                    stateId, returned, last, firedChange, firedChanged, notified, byProperty, observed,
                    tickPure, sinceFlush>>

\* the fields of the program that an operation reads and writes, as one
\* record, with what the application's code does when it is called back
\* during the operation: the reaction of its "changed" listener, and
\* whether the consolidate hook of its subclass throws
World ==
    [target |-> target, queue |-> queue, microTaskQueued |-> microTaskQueued,
     tasks |-> tasks, nested |-> nested, listeners |-> listeners,
     promises |-> promises, nextPromise |-> nextPromise, settled |-> settled,
     states |-> states, stateId |-> stateId, returned |-> returned,
     ret |-> "undefined", retId |-> 0,
     firedChange |-> <<>>, firedChanged |-> <<>>, notified |-> <<>>,
     observed |-> <<>>,
     reaction |-> [kind |-> "none", property |-> "-", value |-> "-"],
     hookThrows |-> FALSE, thrown |-> FALSE]

\* ------------------------------------------------------------------ Observable

\* ChangedEvent.changesByProperty with properties.set(property, [change])
\* for every Change in place of the push
changesByProperty_overwriting(changes) ==
    [p \in {changes[i].property : i \in 1..Len(changes)} |->
        LET own == SelectSeq(changes, LAMBDA change : change.property = p)
            last1 == own[Len(own)]
        IN  <<[from |-> last1.from, to |-> last1.to,
               mutation |-> last1.mutation, source |-> last1.source]>>]

\* ChangedEvent.changesByProperty: for each property of the batch the list
\* of its Changes, in order and without their property field
changesByProperty(changes) ==
    [p \in {changes[i].property : i \in 1..Len(changes)} |->
        LET own == SelectSeq(changes, LAMBDA change : change.property = p)
        IN  [i \in 1..Len(own) |->
                [from |-> own[i].from, to |-> own[i].to,
                 mutation |-> own[i].mutation, source |-> own[i].source]]]

\* Observable.same, or the per-instance override given as the `same` option
same(o, a, b) ==
    IF sameMode[o] = "identity" THEN a = b ELSE FALSE

\* dispatchEvent(new ChangeEvent(change)): FALSE when a listener cancels it
dispatchChange(o, change) == change.property \notin veto[o]

\* new ChangeEvent(change) as its listeners find it: the event, and the
\* stored value of the property and the queue at the time of the dispatch
ChangeEvent(w, o, change) ==
    [w EXCEPT !.firedChange = Append(@, [obs |-> o, change |-> change]),
              !.observed = Append(@, [stored |-> w.target[o][change.property],
                                      queue |-> w.queue[o]])]

\* enqueue with the push at the wrong end of the queue
enqueue_unshift(w, o, change) ==
    LET w1 == ChangeEvent(w, o, change)
    IN  IF ~dispatchChange(o, change)
        THEN [w1 EXCEPT !.ret = "false"]
        ELSE LET w2 == IF ~w1.microTaskQueued[o]
                       THEN [w1 EXCEPT !.microTaskQueued[o] = TRUE,
                                       !.tasks = Append(@, o)]
                       ELSE w1
             IN  [w2 EXCEPT !.queue[o] = <<change>> \o @, !.ret = "true"]

\* enqueue that schedules a flush at every call
enqueue_reschedule(w, o, change) ==
    LET w1 == ChangeEvent(w, o, change)
    IN  IF ~dispatchChange(o, change)
        THEN [w1 EXCEPT !.ret = "false"]
        ELSE [w1 EXCEPT !.microTaskQueued[o] = TRUE,
                        !.tasks = Append(@, o),
                        !.queue[o] = Append(@, change), !.ret = "true"]

\* enqueue that pushes the Change before it dispatches the "change" event
enqueue_pushFirst(w, o, change) ==
    LET w1 == ChangeEvent([w EXCEPT !.queue[o] = Append(@, change)], o, change)
    IN  IF ~dispatchChange(o, change)
        THEN [w1 EXCEPT !.ret = "false"]
        ELSE IF ~w1.microTaskQueued[o]
             THEN [w1 EXCEPT !.microTaskQueued[o] = TRUE,
                             !.tasks = Append(@, o), !.ret = "true"]
             ELSE [w1 EXCEPT !.ret = "true"]

\* Observable.enqueue: the cancelable "change" event, then the scheduling of
\* the flush (once per tick) and the push onto the queue
enqueue(w, o, change) ==
    LET w1 == ChangeEvent(w, o, change)
    IN  IF ~dispatchChange(o, change)
        THEN [w1 EXCEPT !.ret = "false"]
        ELSE LET w2 == IF ~w1.microTaskQueued[o]
                       THEN [w1 EXCEPT !.microTaskQueued[o] = TRUE,
                                       !.tasks = Append(@, o)]
                       ELSE w1
             IN  [w2 EXCEPT !.queue[o] = Append(@, change), !.ret = "true"]

\* the sequence s without its last occurrence of e
RECURSIVE RemoveLast(_, _)
RemoveLast(s, e) ==
    IF s = <<>> THEN <<>>
    ELSE IF s[Len(s)] = e THEN SubSeq(s, 1, Len(s) - 1)
    ELSE Append(RemoveLast(SubSeq(s, 1, Len(s) - 1), e), s[Len(s)])

\* Observable.adopt: subscribe to the "changed" event of a nested Observable
adopt(w, o, property, observable) ==
    [w EXCEPT !.nested[o][observable] =
                  [has |-> TRUE, props |-> @.props \cup {property}],
              !.listeners[observable] = Append(@, <<o, property>>)]

\* disown that prunes the bookkeeping and leaves the listener registered
disown_keepingListener(w, o, property, observable) ==
    LET handlers == w.nested[o][observable]
    IN  IF ~handlers.has
        THEN [w EXCEPT !.ret = "TypeError"]
        ELSE LET left == handlers.props \ {property}
             IN  [w EXCEPT !.nested[o][observable] =
                               [has |-> left # {}, props |-> left]]

\* Observable.disown: handlers.get on a missing entry is a TypeError; a
\* missing handler is removed to no effect
disown(w, o, property, observable) ==
    LET handlers == w.nested[o][observable]
    IN  IF ~handlers.has
        THEN [w EXCEPT !.ret = "TypeError"]
        ELSE LET left == handlers.props \ {property}
             IN  [w EXCEPT !.listeners[observable] =
                               IF property \in handlers.props
                               THEN RemoveLast(@, <<o, property>>) ELSE @,
                           !.nested[o][observable] =
                               [has |-> left # {}, props |-> left]]

\* set without the comparison of the old and the new value
set_uncompared(w, o, property, value, source) ==
    LET old == w.target[o][property]
        w1 == enqueue(w, o, Change(property, old, value, FALSE, source))
    IN  IF w1.ret = "true"
        THEN [w1 EXCEPT !.target[o][property] = value, !.ret = "true"]
        ELSE [w1 EXCEPT !.ret = "false"]

\* set that stores the value before it enqueues the Change
set_storingFirst(w, o, property, value, source) ==
    LET old == w.target[o][property]
    IN  IF ~same(o, old, value)
        THEN LET w0 == [w EXCEPT !.target[o][property] = value]
                 w1 == enqueue(w0, o, Change(property, old, value, FALSE, source))
             IN  IF w1.ret = "true"
                 THEN [w1 EXCEPT !.ret = "true"]
                 ELSE [w1 EXCEPT !.target[o][property] = old, !.ret = "false"]
        ELSE [w EXCEPT !.ret = "true"]

\* Observable.set
set(w, o, property, value, source) ==
    LET old == w.target[o][property]
    IN  IF ~same(o, old, value)
        THEN LET w1 == enqueue(w, o, Change(property, old, value, FALSE, source))
             IN  IF w1.ret = "true"
                 THEN LET w2 == IF trackChildren[o] /\ IsObservable(old)
                                THEN disown(w1, o, property, old) ELSE w1
                      IN  IF w2.ret = "TypeError" THEN w2
                          ELSE LET w3 == IF trackChildren[o] /\ IsObservable(value)
                                         THEN adopt(w2, o, property, value) ELSE w2
                               IN  [w3 EXCEPT !.target[o][property] = value,
                                              !.ret = "true"]
                 ELSE [w1 EXCEPT !.ret = "false"]
        ELSE [w EXCEPT !.ret = "true"]

\* a "change" listener of the application that normalises a property: when
\* the event announces another value for it, the listener assigns its own
\* value through the values proxy, a call of set from inside dispatchEvent;
\* the event of that inner call announces the listener's value, which it
\* lets pass
changeListener(w, o, change, reaction) ==
    IF /\ reaction.kind = "write"
       /\ change.property = reaction.property
       /\ change.to # reaction.value
    THEN [set(w, o, reaction.property, reaction.value, ValuesProxy(o))
            EXCEPT !.ret = w.ret]
    ELSE w

\* Observable.enqueue with that listener registered: dispatchEvent runs it
\* before the flush is scheduled and the Change is pushed
enqueueListened(w, o, change, reaction) ==
    LET w1 == changeListener(ChangeEvent(w, o, change), o, change, reaction)
    IN  IF ~dispatchChange(o, change)
        THEN [w1 EXCEPT !.ret = "false"]
        ELSE LET w2 == IF ~w1.microTaskQueued[o]
                       THEN [w1 EXCEPT !.microTaskQueued[o] = TRUE,
                                       !.tasks = Append(@, o)]
                       ELSE w1
             IN  [w2 EXCEPT !.queue[o] = Append(@, change), !.ret = "true"]

\* Observable.set with that listener registered
setListened(w, o, property, value, source, reaction) ==
    LET old == w.target[o][property]
    IN  IF ~same(o, old, value)
        THEN LET w1 == enqueueListened(w, o, Change(property, old, value, FALSE, source),
                                       reaction)
             IN  IF w1.ret = "true"
                 THEN LET w2 == IF trackChildren[o] /\ IsObservable(old)
                                THEN disown(w1, o, property, old) ELSE w1
                      IN  IF w2.ret = "TypeError" THEN w2
                          ELSE LET w3 == IF trackChildren[o] /\ IsObservable(value)
                                         THEN adopt(w2, o, property, value) ELSE w2
                               IN  [w3 EXCEPT !.target[o][property] = value,
                                              !.ret = "true"]
                 ELSE [w1 EXCEPT !.ret = "false"]
        ELSE [w EXCEPT !.ret = "true"]

\* Observable.consolidate: the default hook returns its argument
consolidate(changes) == changes

\* the distinct properties of changes[1..n] that satisfy has, by first occurrence
RECURSIVE FirstOccurrences(_, _, _)
FirstOccurrences(changes, n, has) ==
    IF n = 0 THEN <<>>
    ELSE LET before == FirstOccurrences(changes, n - 1, has)
             p == changes[n].property
         IN  IF p \in has /\ \A i \in 1..Len(before) : before[i] # p
             THEN Append(before, p) ELSE before

\* the `to` of the last of changes[1..n] whose property is p
RECURSIVE LastTo(_, _, _)
LastTo(changes, n, p) ==
    IF n = 0 THEN Undefined
    ELSE IF changes[n].property = p THEN changes[n].to
    ELSE LastTo(changes, n - 1, p)

\* Object.entries(object): the string-keyed entries only, in insertion order
ObjectEntries(props) == SelectSeq(props, LAMBDA p : p \in StringKeys)

\* the adoption handlers of an Observable run, in registration order
RECURSIVE RunHandlers(_, _, _)
RunHandlers(w, o, hs) ==
    IF hs = <<>> THEN w
    ELSE LET h == Head(hs)
             w1 == enqueue(w, h[1], Change(h[2], o, o, TRUE, ObservableSource(o)))
         IN  RunHandlers(w1, o, Tail(hs))

\* State.notifyChange of the PropertyStates of props, in order
RECURSIVE NotifyStates(_, _, _)
NotifyStates(w, o, props) ==
    IF props = <<>> THEN w
    ELSE LET p == Head(props)
             w1 == [w EXCEPT !.notified = Append(@,
                        [obs |-> o, property |-> p, source |-> ObservableSource(o),
                         value |-> w.target[o][p]])]
         IN  NotifyStates(w1, o, Tail(props))

\* the callbacks of the pending promises of props run, their entries stay
RECURSIVE ResolvePromises_keeping(_, _, _, _)
ResolvePromises_keeping(w, o, props, consolidated) ==
    IF props = <<>> THEN w
    ELSE LET p == Head(props)
             id == w.promises[o][p]
             value == LastTo(consolidated, Len(consolidated), p)
             w1 == [w EXCEPT !.settled[id] =
                                 IF @.count = 0
                                 THEN [count |-> 1, kind |-> "value", value |-> value]
                                 ELSE [@ EXCEPT !.count = @ + 1]]
         IN  ResolvePromises_keeping(w1, o, Tail(props), consolidated)

\* the pending promises of props are removed and their callbacks run
RECURSIVE ResolvePromises(_, _, _, _)
ResolvePromises(w, o, props, consolidated) ==
    IF props = <<>> THEN w
    ELSE LET p == Head(props)
             id == w.promises[o][p]
             value == LastTo(consolidated, Len(consolidated), p)
             w1 == [w EXCEPT !.promises[o][p] = 0,
                             !.settled[id] =
                                 IF @.count = 0
                                 THEN [count |-> 1, kind |-> "value", value |-> value]
                                 ELSE [@ EXCEPT !.count = @ + 1]]
         IN  ResolvePromises(w1, o, Tail(props), consolidated)

\* the "changed" event of emit is dispatched: it carries a copy of the
\* consolidated list
ChangedEvent(w, o) ==
    [w EXCEPT !.firedChanged =
                  Append(@, [obs |-> o, changes |-> consolidate(w.queue[o])])]

\* what emit does once the listener of the application has left w0: the
\* adoption handlers registered when emit began run, and the loops that
\* follow walk the list as the listeners left it
emitAfterListener(w, w0, o) ==
    LET w1 == RunHandlers(w0, o, w.listeners[o])
        consolidated == consolidate(w1.queue[o])
        hasState == {p \in Keys : w1.states[o][p] # "none"}
        hasPromise == {p \in Keys : w1.promises[o][p] # 0}
    IN  IF hasState # {} \/ hasPromise # {}
        THEN LET lastForStates ==
                     FirstOccurrences(consolidated, Len(consolidated), hasState)
                 lastForPromises ==
                     FirstOccurrences(consolidated, Len(consolidated), hasPromise)
                 w2 == NotifyStates(w1, o, ObjectEntries(lastForStates))
             IN  ResolvePromises(w2, o, ObjectEntries(lastForPromises), consolidated)
        ELSE w1

\* emit and emitQueue as the listener of the application calls them: the
\* listener reacts once, and returns at once when it is run again
emitAgain(w, o) ==
    IF w.hookThrows
    THEN [w EXCEPT !.hookThrows = FALSE, !.thrown = TRUE]
    ELSE emitAfterListener(w, ChangedEvent(w, o), o)

emitQueueAgain(w, o) ==
    LET w1 == IF Len(w.queue[o]) # 0 THEN emitAgain(w, o) ELSE w
    IN  IF w1.thrown THEN [w1 EXCEPT !.ret = "Error"]
        ELSE [w1 EXCEPT !.queue[o] = <<>>, !.ret = "undefined"]

\* what the "changed" listener of the application does when it runs: it
\* returns, or (once) writes a property or calls emitQueue(); dispatchEvent
\* keeps whatever the listener throws from its caller
React(w, o) ==
    LET w0 == [w EXCEPT !.reaction = [kind |-> "none", property |-> "-", value |-> "-"]]
    IN  IF w.reaction.kind = "write"
        THEN [set(w0, o, w.reaction.property, w.reaction.value, ValuesProxy(o))
                EXCEPT !.thrown = FALSE]
        ELSE IF w.reaction.kind = "emitQueue"
        THEN [emitQueueAgain(w0, o) EXCEPT !.thrown = FALSE]
        ELSE w

\* emit that passes over the states that are the source of a Change
emit_skippingSource(w, o) ==
    LET event == [obs |-> o, changes |-> consolidate(w.queue[o])]
        w1 == RunHandlers([w EXCEPT !.firedChanged = Append(@, event)],
                          o, w.listeners[o])
        consolidated == consolidate(w1.queue[o])
        hasState == {p \in Keys : w1.states[o][p] # "none"}
        hasPromise == {p \in Keys : w1.promises[o][p] # 0}
        foreign == SelectSeq(consolidated,
                             LAMBDA c : c.source # StateSource(o, c.property))
    IN  IF hasState # {} \/ hasPromise # {}
        THEN LET lastForStates == FirstOccurrences(foreign, Len(foreign), hasState)
                 lastForPromises ==
                     FirstOccurrences(consolidated, Len(consolidated), hasPromise)
                 w2 == NotifyStates(w1, o, ObjectEntries(lastForStates))
             IN  ResolvePromises(w2, o, ObjectEntries(lastForPromises), consolidated)
        ELSE w1

\* Observable.emit(changes), changes being the queue itself as in emitQueue:
\* a throwing consolidate hook ends it at once; the "changed" event goes
\* to the listener of the application first
emit(w, o) ==
    IF w.hookThrows
    THEN [w EXCEPT !.hookThrows = FALSE, !.thrown = TRUE]
    ELSE emitAfterListener(w, React(ChangedEvent(w, o), o), o)

\* emitQueue that also withdraws the pending deferred flush
emitQueue_cancelling(w, o) ==
    LET w1 == IF Len(w.queue[o]) # 0 THEN emit(w, o) ELSE w
    IN  [w1 EXCEPT !.queue[o] = <<>>, !.ret = "undefined",
                   !.microTaskQueued[o] = FALSE,
                   !.tasks = SelectSeq(@, LAMBDA x : x # o)]

\* Observable.emitQueue: a fault in emit leaves the queue as it is
emitQueue(w, o) ==
    LET w1 == IF Len(w.queue[o]) # 0 THEN emit(w, o) ELSE w
    IN  IF w1.thrown THEN [w1 EXCEPT !.ret = "Error"]
        ELSE [w1 EXCEPT !.queue[o] = <<>>, !.ret = "undefined"]

\* the callback that enqueue hands to queueMicrotask
microtask(w, o) ==
    emitQueue([w EXCEPT !.microTaskQueued[o] = FALSE], o)

\* Observable.when
when(w, o, property) ==
    LET cached == w.promises[o][property]
    IN  IF cached # 0
        THEN [w EXCEPT !.ret = "undefined"]
        ELSE [w EXCEPT !.promises[o][property] = w.nextPromise,
                       !.nextPromise = @ + 1,
                       !.ret = "promise", !.retId = w.nextPromise]

\* the identity of an object that `new` creates: none of those in use
Fresh(ids) ==
    CHOOSE id \in 1..(Cardinality(ids) + 1) : id \notin ids

\* the identities of the PropertyStates constructed so far
StateIds(w) ==
    UNION {{w.stateId[o][p] : p \in Keys} \cup UNION {w.returned[o][p] : p \in Keys} :
              o \in Obs} \ {0}

\* property that constructs a PropertyState on every call
property_uncached(w, o, p, readonly) ==
    LET id == Fresh(StateIds(w))
    IN  [w EXCEPT !.states[o][p] = IF readonly THEN "ro" ELSE "rw",
                  !.stateId[o][p] = id,
                  !.returned[o][p] = @ \cup {id},
                  !.ret = "state", !.retId = id]

\* Observable.property
property(w, o, p, readonly) ==
    IF w.states[o][p] # "none"
    THEN [w EXCEPT !.returned[o][p] = @ \cup {w.stateId[o][p]},
                   !.ret = "state", !.retId = w.stateId[o][p]]
    ELSE LET id == Fresh(StateIds(w))
         IN  [w EXCEPT !.states[o][p] = IF readonly THEN "ro" ELSE "rw",
                       !.stateId[o][p] = id,
                       !.returned[o][p] = @ \cup {id},
                       !.ret = "state", !.retId = id]

\* the set trap of the readOnly proxy
readOnlySet(w, o, p, value) == [w EXCEPT !.ret = "TypeError"]

\* a read through the readOnly proxy, which has no get trap
readOnlyGet(w, o, p) == w.target[o][p]

\* PropertyState.value (getter): observable.values[property]
PropertyStateValue(w, o, p) == w.target[o][p]

\* update without the read-only guard
update_unguarded(w, o, p, value) ==
    [set(w, o, p, value, StateSource(o, p)) EXCEPT !.ret =
        IF @ = "TypeError" THEN @ ELSE "undefined"]

\* PropertyState.update
update(w, o, p, value) ==
    IF w.states[o][p] = "ro"
    THEN [w EXCEPT !.ret = "TypeError"]
    ELSE [set(w, o, p, value, StateSource(o, p)) EXCEPT !.ret =
              IF @ = "TypeError" THEN @ ELSE "undefined"]

\* ------------------------------------------------------------------ State

\* the fields of the States that an operation reads and writes, as one record
StateWorld ==
    [valueKey |-> valueKey, state |-> state, values |-> values, revoked |-> revoked,
     ret |-> Undef, orphan |-> FALSE, changed |-> FALSE,
     stateChanged |-> <<>>, orphanedEvents |-> <<>>, invoked |-> <<>>]

RECURSIVE Sum(_)
Sum(args) == IF args = <<>> THEN 0 ELSE Head(args) + Sum(Tail(args))

\* the compute function: the sum of the arguments, as in
\* State.compute((a, b) => a + b); undefined and NaN operands give NaN
fn(args) ==
    IF \E key \in 1..Len(args) : args[key] < 0 THEN NaN ELSE Sum(args)

\* a !== b
StrictlyUnequal(a, b) == a # b \/ a = NaN

\* the keys of c.#inputs whose ref was created over the State s
KeysOf(c, s) ==
    SelectSeq([key \in 1..Len(inputs[c]) |-> key], LAMBDA key : inputs[c][key] = s)

\* the listeners the ComputedStates registered on the State s, in the order
\* of their registration: one per ref, as <<ComputedState, key>>
RECURSIVE SubscribersFrom(_, _)
SubscribersFrom(order, s) ==
    IF order = <<>> THEN <<>>
    ELSE LET c == Head(order)
             keys == IF c \in built THEN KeysOf(c, s) ELSE <<>>
         IN  [i \in 1..Len(keys) |-> <<c, keys[i]>>] \o SubscribersFrom(Tail(order), s)

Subscribers(s) == SubscribersFrom(ConstructionOrder, s)

\* this.#inputs[key].deref(): a WeakRef over any other State, a
\* RevocableRef over a ComputedState
deref(sw, c, key) ==
    LET input == inputs[c][key]
    IN  IF input \in Computed
        THEN IF key \in sw.revoked[c] THEN None ELSE input
        ELSE IF input \in collected THEN None ELSE input

RECURSIVE value(_, _)
RECURSIVE updateValues(_, _, _, _)
RECURSIVE notifyChange(_, _, _)
RECURSIVE setDirty(_, _, _)
RECURSIVE dispatchChanged(_, _, _)
RECURSIVE checkOrphaned(_, _)
RECURSIVE dispatchOrphaned(_, _)
RECURSIVE dispatchAbort(_, _)

\* ComputedState.updateValues, from the given key on: reads every live
\* input and stores the values that differ from the cached ones
updateValues(sw, c, key, changed) ==
    IF key > Len(inputs[c]) THEN [sw EXCEPT !.changed = changed]
    ELSE LET input == deref(sw, c, key)
             w1 == IF input = None THEN [sw EXCEPT !.ret = Undef] ELSE value(sw, input)
         IN  IF input # None /\ StrictlyUnequal(w1.ret, w1.values[c][key])
             THEN updateValues([w1 EXCEPT !.values[c][key] = w1.ret], c, key + 1, TRUE)
             ELSE updateValues(w1, c, key + 1, changed)

\* the value getter whose compute function is called for every read
value_eager(sw, s) ==
    IF s \notin Computed THEN [sw EXCEPT !.ret = sw.valueKey[s]]
    ELSE LET w1 == updateValues(sw, s, 1, FALSE)
             w2 == [w1 EXCEPT !.valueKey[s] = fn(w1.values[s]),
                              !.invoked = Append(@, [state |-> s, args |-> w1.values[s]])]
             w3 == [w2 EXCEPT !.state[s] = "clean"]
         IN  [w3 EXCEPT !.ret = w3.valueKey[s]]

\* State.value and WriteableState.value (getter): the stored value;
\* ComputedState.value (getter): recomputes first when the state is not clean
value(sw, s) ==
    IF s \notin Computed THEN [sw EXCEPT !.ret = sw.valueKey[s]]
    ELSE IF sw.state[s] # "clean"
         THEN LET w1 == updateValues(sw, s, 1, FALSE)
                  w2 == IF w1.changed
                        THEN [w1 EXCEPT !.valueKey[s] = fn(w1.values[s]),
                                        !.invoked = Append(@, [state |-> s,
                                                               args |-> w1.values[s]])]
                        ELSE w1
                  w3 == [w2 EXCEPT !.state[s] = "clean"]
              IN  [w3 EXCEPT !.ret = w3.valueKey[s]]
         ELSE [sw EXCEPT !.ret = sw.valueKey[s]]

\* dispatchEvent of a StateChangedEvent: the callbacks the ComputedStates
\* registered in their constructor, each calling setDirty(event.source)
dispatchChanged(sw, subscribers, source) ==
    IF subscribers = <<>> THEN sw
    ELSE dispatchChanged(setDirty(sw, Head(subscribers)[1], source),
                         Tail(subscribers), source)

\* State.notifyChange: builds the event from the value getter and dispatches it
notifyChange(sw, s, source) ==
    LET w1 == value(sw, s)
        event == [state |-> s, value |-> w1.ret, source |-> source]
    IN  dispatchChanged([w1 EXCEPT !.stateChanged = Append(@, event)],
                        Subscribers(s), source)

\* ComputedState.setDirty
setDirty(sw, c, source) ==
    notifyChange([sw EXCEPT !.state[c] = "dirty"], c, source)

\* dispatchEvent of "orphaned": the listeners the ComputedStates registered
\* on a ComputedState input, each calling checkOrphaned() and then ref.revoke()
dispatchOrphaned(sw, subscribers) ==
    IF subscribers = <<>> THEN sw
    ELSE LET c == Head(subscribers)[1]
             key == Head(subscribers)[2]
             w1 == checkOrphaned(sw, c)
         IN  dispatchOrphaned([w1 EXCEPT !.revoked[c] = @ \cup {key}], Tail(subscribers))

\* checkOrphaned that never finds the state orphaned
checkOrphaned_never(sw, c) == [sw EXCEPT !.orphan = FALSE]

\* ComputedState.checkOrphaned
checkOrphaned(sw, c) ==
    IF \E key \in 1..Len(inputs[c]) : deref(sw, c, key) # None
    THEN [sw EXCEPT !.orphan = FALSE]
    ELSE LET w1 == [sw EXCEPT !.state[c] = "orphaned",
                              !.orphanedEvents = Append(@, c)]
         IN  [dispatchOrphaned(w1, Subscribers(c)) EXCEPT !.orphan = TRUE]

\* the "abort" event of input.collectedSignal: the listeners the
\* ComputedStates registered on it, each calling checkOrphaned()
dispatchAbort(sw, subscribers) ==
    IF subscribers = <<>> THEN sw
    ELSE dispatchAbort(checkOrphaned(sw, Head(subscribers)[1]), Tail(subscribers))

\* WriteableState.update that forgets the source of the write
WriteableStateUpdate_sourceless(sw, s, v, source) ==
    IF v # sw.valueKey[s]
    THEN notifyChange([sw EXCEPT !.valueKey[s] = v], s, NoSource)
    ELSE sw

\* WriteableState.update; the value setter is the call without a source
WriteableStateUpdate(sw, s, v, source) ==
    IF v # sw.valueKey[s]
    THEN notifyChange([sw EXCEPT !.valueKey[s] = v], s, source)
    ELSE sw

\* ------------------------------------------------------------------ steps

\* the fields of w become the next state of the Observables
CommitObservables(w) ==
    /\ target' = w.target
    /\ queue' = w.queue
    /\ microTaskQueued' = w.microTaskQueued
    /\ tasks' = w.tasks
    /\ nested' = w.nested
    /\ listeners' = w.listeners
    /\ promises' = w.promises
    /\ nextPromise' = w.nextPromise
    /\ settled' = w.settled
    /\ states' = w.states
    /\ stateId' = w.stateId
    /\ returned' = w.returned
    /\ firedChange' = w.firedChange
    /\ firedChanged' = w.firedChanged
    /\ notified' = w.notified
    /\ byProperty' = [i \in 1..Len(w.firedChanged) |->
                         changesByProperty(w.firedChanged[i].changes)]
    /\ observed' = w.observed
    /\ UNCHANGED <<sameMode, trackChildren, veto>>

\* the fields of w become the next state
Commit(w) ==
    /\ CommitObservables(w)
    /\ UNCHANGED stateVars

\* the record of a step: the operation, its arguments and what it returned
Op(op, o, p, v, source, w) ==
    [op |-> op, obs |-> o, property |-> p, value |-> v, source |-> source,
     ret |-> w.ret, retId |-> w.retId]

\* history: the mutation Changes that the parents of o accept when o
\* dispatches "changed", appended to log
RECURSIVE Adopted(_, _, _)
Adopted(log, o, hs) ==
    IF hs = <<>> THEN log
    ELSE LET h == Head(hs)
             c == Change(h[2], o, o, TRUE, ObservableSource(o))
         IN  Adopted(IF h[2] \in veto[h[1]]
                     THEN log
                     ELSE [log EXCEPT ![h[1]] = Append(@, c)],
                     o, Tail(hs))

\* history: the parents of o that accept a mutation Change when o dispatches
Notifies(o) ==
    IF queue[o] = <<>> THEN {}
    ELSE {h[1] : h \in {listeners[o][i] : i \in 1..Len(listeners[o])}
                        \cap {h \in Obs \X Keys : h[2] \notin veto[h[1]]}}

\* history: a write of v to o[p] is accepted unless it is a no-op or canceled
Written(o, p, v, source) ==
    LET accepted == ~same(o, target[o][p], v) /\ p \notin veto[o]
        c == Change(p, target[o][p], v, FALSE, source)
    IN  /\ tickPure' = IF accepted THEN tickPure
                       ELSE [tickPure EXCEPT ![o] = FALSE]
        /\ sinceFlush' = IF accepted THEN [sinceFlush EXCEPT ![o] = Append(@, c)]
                         ELSE sinceFlush

\* a call of observable.set(property, value, source); an assignment to
\* observable.values[property] is the call with the proxy as source
Write(o, p, v, source) ==
    /\ Len(queue[o]) < MaxQueue
    /\ LET w == set(World, o, p, v, source)
       IN  /\ Commit(w)
           /\ last' = Op("set", o, p, v, source, w)
    /\ Written(o, p, v, source)

\* a call of observable.set(property, value, source) while the normalising
\* "change" listener of the application is registered
WriteListened(o, p, v, source, reaction) ==
    /\ Len(queue[o]) + 1 < MaxQueue
    /\ \E w \in {setListened(World, o, p, v, source, reaction)} :
           /\ Commit(w)
           /\ last' = Op("set", o, p, v, source, w)
           /\ tickPure' = IF Len(w.queue[o]) > Len(queue[o]) THEN tickPure
                          ELSE [tickPure EXCEPT ![o] = FALSE]
           /\ sinceFlush' = [sinceFlush EXCEPT ![o] =
                                @ \o SubSeq(w.queue[o], Len(queue[o]) + 1, Len(w.queue[o]))]

\* a call of observable.when(property)
When(o, p) ==
    /\ promises[o][p] # 0 \/ nextPromise <= MaxPromises
    /\ LET w == when(World, o, p)
       IN  /\ Commit(w)
           /\ last' = Op("when", o, p, "-", NoSource, w)
    /\ UNCHANGED <<tickPure, sinceFlush>>

\* a call of observable.property(property, {readonly})
Property(o, p, readonly) ==
    /\ LET w == property(World, o, p, readonly)
       IN  /\ Commit(w)
           /\ last' = Op("property", o, p, IF readonly THEN "readonly" ELSE "-",
                         NoSource, w)
    /\ UNCHANGED <<tickPure, sinceFlush>>

\* an assignment to the value of the PropertyState of o[p]
StateWrite(o, p, v) ==
    /\ states[o][p] # "none"
    /\ Len(queue[o]) < MaxQueue
    /\ LET w == update(World, o, p, v)
       IN  /\ Commit(w)
           /\ last' = Op("update", o, p, v, StateSource(o, p), w)
    /\ IF states[o][p] = "ro"
       THEN UNCHANGED <<tickPure, sinceFlush>>
       ELSE Written(o, p, v, StateSource(o, p))

\* a read of the value of the PropertyState of o[p]
StateRead(o, p) ==
    /\ states[o][p] # "none"
    /\ Commit(World)
    /\ last' = [Op("value", o, p, PropertyStateValue(World, o, p), NoSource, World)
                  EXCEPT !.ret = "value"]
    /\ UNCHANGED <<tickPure, sinceFlush>>

\* an assignment to observable.readOnly[property]
ReadOnlyWrite(o, p, v) ==
    /\ LET w == readOnlySet(World, o, p, v)
       IN  /\ Commit(w)
           /\ last' = Op("readOnly.set", o, p, v, NoSource, w)
    /\ UNCHANGED <<tickPure, sinceFlush>>

\* a read of observable.readOnly[property]
ReadOnlyRead(o, p) ==
    /\ Commit(World)
    /\ last' = [Op("readOnly.get", o, p, readOnlyGet(World, o, p), NoSource, World)
                  EXCEPT !.ret = "value"]
    /\ UNCHANGED <<tickPure, sinceFlush>>

\* a synchronous call of observable.emitQueue()
EmitQueueCall(o) ==
    /\ \A i \in 1..Len(listeners[o]) : Len(queue[listeners[o][i][1]]) < MaxQueue
    /\ LET w == emitQueue(World, o)
       IN  /\ Commit(w)
           /\ last' = Op("emitQueue", o, "-", "-", NoSource, w)
    /\ tickPure' = [x \in Obs |->
                      IF x \in Notifies(o) \/ (x = o /\ sinceFlush[o] # <<>>)
                      THEN FALSE ELSE tickPure[x]]
    /\ sinceFlush' = [IF queue[o] = <<>> THEN sinceFlush
                      ELSE Adopted(sinceFlush, o, listeners[o]) EXCEPT ![o] = <<>>]

\* the host runs the oldest pending microtask: a deferred flush
Flush ==
    /\ tasks # <<>>
    /\ LET o == Head(tasks)
           w == microtask([World EXCEPT !.tasks = Tail(@)], o)
       IN  /\ Commit(w)
           /\ last' = Op("flush", o, "-", "-", NoSource, w)
           /\ tickPure' = [x \in Obs |->
                             IF x = o THEN TRUE
                             ELSE IF x \in Notifies(o) THEN FALSE ELSE tickPure[x]]
           /\ sinceFlush' = [IF queue[o] = <<>> THEN sinceFlush
                             ELSE Adopted(sinceFlush, o, listeners[o]) EXCEPT ![o] = <<>>]

\* history: the Changes of o that the operation that ended in w enqueued
AcceptedBy(w, o) ==
    LET own == SelectSeq(w.firedChange,
                         LAMBDA e : e.obs = o /\ e.change.property \notin veto[o])
    IN  [i \in 1..Len(own) |-> own[i].change]

\* history after a flush of o that ended in w
Flushed(w, o, deferred) ==
    /\ sinceFlush' = [x \in Obs |->
                        IF w.thrown THEN sinceFlush[x]
                        ELSE (IF x = o THEN <<>> ELSE sinceFlush[x]) \o AcceptedBy(w, x)]
    /\ tickPure' = [x \in Obs |->
                      IF x = o
                      THEN deferred /\ ~w.thrown /\ AcceptedBy(w, o) = <<>>
                      ELSE tickPure[x] /\ AcceptedBy(w, x) = <<>>]

\* a synchronous call of observable.emitQueue() during which the "changed"
\* listener of the application reacts and the consolidate hook may throw
EmitQueueCallWith(o, reaction, fault) ==
    /\ \A i \in 1..Len(listeners[o]) : Len(queue[listeners[o][i][1]]) < MaxQueue
    /\ \E w \in {emitQueue([World EXCEPT !.reaction = reaction,
                                         !.hookThrows = fault], o)} :
           /\ Commit(w)
           /\ last' = Op("emitQueue", o, "-", "-", NoSource, w)
           /\ Flushed(w, o, FALSE)

\* the host runs the oldest pending microtask, a deferred flush, during
\* which the "changed" listener reacts and the consolidate hook may throw
FlushWith(reaction, fault) ==
    /\ tasks # <<>>
    /\ \E w \in {microtask([World EXCEPT !.tasks = Tail(@), !.reaction = reaction,
                                         !.hookThrows = fault], Head(tasks))} :
           /\ Commit(w)
           /\ last' = Op("flush", Head(tasks), "-", "-", NoSource, w)
           /\ Flushed(w, Head(tasks), TRUE)

\* the application adds or removes its canceling "change" listener
Listen(o, keys) ==
    /\ veto[o] # keys
    /\ veto' = [veto EXCEPT ![o] = keys]
    /\ last' = Op("listen", o, "-", "-", NoSource, World)
    /\ firedChange' = <<>>
    /\ firedChanged' = <<>>
    /\ notified' = <<>>
    /\ byProperty' = <<>>
    /\ observed' = <<>>
    /\ UNCHANGED <<target, sameMode, trackChildren, queue, microTaskQueued, tasks,
                   nested, listeners, promises, nextPromise, settled, states,
                   stateId, returned, tickPure, sinceFlush>>
    /\ UNCHANGED stateVars

\* the fields of sw become the next state of the States
CommitStates(sw) ==
    /\ valueKey' = sw.valueKey
    /\ state' = sw.state
    /\ values' = sw.values
    /\ revoked' = sw.revoked
    /\ stateChanged' = sw.stateChanged
    /\ orphanedEvents' = sw.orphanedEvents
    /\ invoked' = sw.invoked

\* the fields of sw become the next state, in a step of the States alone
StateCommit(sw) ==
    /\ CommitStates(sw)
    /\ UNCHANGED <<inputs, built>>
    /\ UNCHANGED observableVars

\* what stateOp records of an operation
StateOp(op, s, v, source, sw) ==
    [op |-> op, state |-> s, value |-> v, source |-> source,
     ret |-> sw.ret, orphan |-> sw.orphan]

\* the application calls state.update(v, source) on a WriteableState;
\* state.value = v is the call with no source
Update(s, v, source) ==
    /\ s \in Writeable \cap held
    /\ LET sw == WriteableStateUpdate(StateWorld, s, v, source)
       IN  /\ StateCommit(sw)
           /\ stateOp' = StateOp("update", s, v, source, sw)
    /\ UNCHANGED <<held, collected, aborts>>

\* the application reads state.value
GetValue(s) ==
    /\ s \in held
    /\ LET sw == value(StateWorld, s)
       IN  /\ StateCommit(sw)
           /\ stateOp' = StateOp("value", s, Undef, NoSource, sw)
    /\ UNCHANGED <<held, collected, aborts>>

\* the application calls computed.checkOrphaned()
CheckOrphaned(c) ==
    /\ c \in built \cap held
    /\ LET sw == checkOrphaned(StateWorld, c)
       IN  /\ StateCommit(sw)
           /\ stateOp' = StateOp("checkOrphaned", c, Undef, NoSource, sw)
    /\ UNCHANGED <<held, collected, aborts>>

\* the application drops its last reference to a WriteableState
Release(s) ==
    /\ s \in Writeable \cap held
    /\ held' = held \ {s}
    /\ StateCommit(StateWorld)
    /\ stateOp' = StateOp("release", s, Undef, NoSource, StateWorld)
    /\ UNCHANGED <<collected, aborts>>

\* the garbage collector reclaims a WriteableState nothing holds strongly:
\* its WeakRefs are cleared and its registry callback becomes pending
Collect(s) ==
    /\ s \in Writeable \ (held \cup collected)
    /\ collected' = collected \cup {s}
    /\ aborts' = aborts \cup {s}
    /\ StateCommit(StateWorld)
    /\ stateOp' = StateOp("collect", s, Undef, NoSource, StateWorld)
    /\ UNCHANGED held

\* the registry callback of a collected State runs controller.abort(),
\* which fires "abort" on its collectedSignal
Finalize(s) ==
    /\ s \in aborts
    /\ aborts' = aborts \ {s}
    /\ LET sw == dispatchAbort(StateWorld, Subscribers(s))
       IN  /\ StateCommit(sw)
           /\ stateOp' = StateOp("abort", s, Undef, NoSource, sw)
    /\ UNCHANGED <<held, collected>>

\* the number that a property of the Observable holds: the PropertyState
\* of "A".p is the State "x" of the States, whose value is what
\* observable.values[property] holds, read on every call of its getter
Number(v) == IF v = "a" THEN 2 ELSE IF v = "b" THEN 3 ELSE Undef

\* c = observable.property("p").map(fn), evaluated once: the PropertyState
\* is created and registered, and the ComputedState "c" is constructed
\* over it
Derive ==
    /\ "c" \notin built
    /\ \E w \in {property(World, "A", "p", FALSE)} :
           /\ CommitObservables(w)
           /\ last' = Op("property", "A", "p", "-", NoSource, w)
    /\ UNCHANGED <<tickPure, sinceFlush>>
    /\ built' = built \cup {"c"}
    /\ held' = held \cup {"c"}
    /\ inputs' = [inputs EXCEPT !["c"] = <<"x">>]
    /\ values' = [values EXCEPT !["c"] = <<Undef>>]
    /\ state' = [state EXCEPT !["c"] = "dirty"]
    /\ stateOp' = StateOp("map", "c", Undef, NoSource, StateWorld)
    /\ stateChanged' = <<>>
    /\ orphanedEvents' = <<>>
    /\ invoked' = <<>>
    /\ UNCHANGED <<valueKey, revoked, collected, aborts>>

\* an assignment to observable.values.p: the getter of the PropertyState
\* returns the stored value from then on, and no State is notified
WriteDerived(v) ==
    /\ "c" \in built
    /\ Len(queue["A"]) < MaxQueue
    /\ \E w \in {set(World, "A", "p", v, ValuesProxy("A"))} :
           /\ CommitObservables(w)
           /\ last' = Op("set", "A", "p", v, ValuesProxy("A"), w)
           /\ \E sw \in {[StateWorld EXCEPT !.valueKey["x"] = Number(w.target["A"]["p"])]} :
                  /\ CommitStates(sw)
                  /\ stateOp' = StateOp("set", "x", Number(v), ValuesProxy("A"), sw)
    /\ Written("A", "p", v, ValuesProxy("A"))
    /\ UNCHANGED <<inputs, built, held, collected, aborts>>

\* the host runs the oldest pending microtask, a deferred flush: emit calls
\* notifyChange(this) on the PropertyState when the batch holds a Change of
\* its property, which runs the "changed" listener of the ComputedState
FlushDerived ==
    /\ tasks # <<>>
    /\ \E w \in {microtask([World EXCEPT !.tasks = Tail(@)], Head(tasks))} :
           /\ CommitObservables(w)
           /\ last' = Op("flush", Head(tasks), "-", "-", NoSource, w)
           /\ Flushed(w, Head(tasks), TRUE)
           /\ \E sw \in {IF \E i \in 1..Len(w.notified) :
                               w.notified[i].obs = "A" /\ w.notified[i].property = "p"
                         THEN notifyChange(StateWorld, "x", ObservableSource("A"))
                         ELSE StateWorld} :
                  /\ CommitStates(sw)
                  /\ stateOp' = StateOp("flush", "x", Undef, ObservableSource("A"), sw)
    /\ UNCHANGED <<inputs, built, held, collected, aborts>>

\* ------------------------------------------------------------------ state()
\* The variant of the library in which observable.state(property) returns
\* a WriteableState bound to the property. One state is bound: that of
\* "A".p, the State "x" of the States.

\* the value of the property that a number of the state stands for
Primitive(n) == IF n = 2 THEN "a" ELSE IF n = 3 THEN "b" ELSE Undefined

\* the fields that an operation of the variant reads and writes: those of
\* the Observables, the value of the bound state and the StateChangedEvents
\* it dispatched
BoundWorld == [w |-> World, valueKey |-> valueKey["x"], stateChanged |-> <<>>]

\* the "changed" listener that state() registers on the state: a change
\* that did not come from the Observable is written to the property, with
\* the state as the source
handler(bw, source) ==
    IF ObservableSource("A") # source
    THEN [bw EXCEPT !.w = set(bw.w, "A", "p", Primitive(bw.valueKey),
                              StateSource("A", "p"))]
    ELSE bw

\* WriteableState.update of the variant: notifyChange dispatches a
\* StateChangedEvent that carries the source alone
updateBound(bw, v, source) ==
    IF v # bw.valueKey
    THEN handler([bw EXCEPT !.valueKey = v,
                            !.stateChanged = Append(@, [state |-> "x", value |-> v,
                                                        source |-> source])],
                 source)
    ELSE bw

\* Observable.state of the variant
stateBound(bw) ==
    IF bw.w.states["A"]["p"] # "none"
    THEN [bw EXCEPT !.w.ret = "state"]
    ELSE [bw EXCEPT !.valueKey = Number(bw.w.target["A"]["p"]),
                    !.w.states["A"]["p"] = "rw",
                    !.w.ret = "state"]

\* the loop of emit over the changes: the state of the property is updated
\* with the value of every Change that the state is not the source of, and
\* the pending promise of the property is resolved with the Change
RECURSIVE emitChanges(_, _)
emitChanges(bw, changes) ==
    IF changes = <<>> THEN bw
    ELSE LET change == Head(changes)
             b1 == IF bw.w.states["A"][change.property] # "none"
                      /\ change.source # StateSource("A", change.property)
                   THEN updateBound(bw, Number(change.to), ObservableSource("A"))
                   ELSE bw
             id == b1.w.promises["A"][change.property]
             b2 == IF id # 0
                   THEN [b1 EXCEPT !.w.promises["A"][change.property] = 0,
                                   !.w.settled[id] =
                                       [count |-> 1, kind |-> "value", value |-> change.to]]
                   ELSE b1
         IN  emitChanges(b2, Tail(changes))

\* Observable.emit of the variant, changes being the queue itself
emitBound(bw) ==
    LET w1 == RunHandlers(ChangedEvent(bw.w, "A"), "A", bw.w.listeners["A"])
        b1 == [bw EXCEPT !.w = w1]
    IN  IF \E p \in Keys : w1.states["A"][p] # "none" \/ w1.promises["A"][p] # 0
        THEN emitChanges(b1, w1.queue["A"])
        ELSE b1

\* Observable.emitQueue of the variant
emitQueueBound(bw) ==
    LET b1 == IF Len(bw.w.queue["A"]) # 0 THEN emitBound(bw) ELSE bw
    IN  [b1 EXCEPT !.w.queue["A"] = <<>>, !.w.ret = "undefined"]

\* the fields of bw become the next state
CommitBound(bw) ==
    /\ CommitObservables(bw.w)
    /\ valueKey' = [valueKey EXCEPT !["x"] = bw.valueKey]
    /\ stateChanged' = bw.stateChanged
    /\ UNCHANGED <<state, values, inputs, revoked, built, held, collected, aborts,
                   orphanedEvents, invoked>>

\* a call of observable.state("p")
BindState ==
    /\ \E bw \in {stateBound(BoundWorld)} :
           /\ CommitBound(bw)
           /\ last' = Op("state", "A", "p", "-", NoSource, bw.w)
           /\ stateOp' = StateOp("state", "x", bw.valueKey, NoSource, StateWorld)
    /\ UNCHANGED <<tickPure, sinceFlush>>

\* an assignment to observable.values.p
WriteProperty(v) ==
    /\ Len(queue["A"]) < MaxQueue
    /\ \E bw \in {[BoundWorld EXCEPT !.w = set(World, "A", "p", v, ValuesProxy("A"))]} :
           /\ CommitBound(bw)
           /\ last' = Op("set", "A", "p", v, ValuesProxy("A"), bw.w)
           /\ stateOp' = StateOp("set", "-", Number(v), ValuesProxy("A"), StateWorld)
    /\ Written("A", "p", v, ValuesProxy("A"))

\* an assignment to the value of the bound state
WriteState(v) ==
    /\ states["A"]["p"] # "none"
    /\ Len(queue["A"]) < MaxQueue
    /\ \E bw \in {updateBound(BoundWorld, Number(v), NoSource)} :
           /\ CommitBound(bw)
           /\ last' = Op("update", "A", "p", v, StateSource("A", "p"), bw.w)
           /\ stateOp' = StateOp("update", "x", Number(v), NoSource, StateWorld)
           /\ sinceFlush' = [sinceFlush EXCEPT !["A"] =
                                @ \o SubSeq(bw.w.queue["A"], Len(queue["A"]) + 1,
                                            Len(bw.w.queue["A"]))]
    /\ UNCHANGED tickPure

\* the host runs the oldest pending microtask, the deferred flush
FlushBound ==
    /\ tasks # <<>>
    /\ \E bw \in {emitQueueBound([BoundWorld EXCEPT !.w.tasks = Tail(@),
                                                    !.w.microTaskQueued["A"] = FALSE])} :
           /\ CommitBound(bw)
           /\ last' = Op("flush", "A", "-", "-", NoSource, bw.w)
           /\ stateOp' = StateOp("flush", "x", Undef, ObservableSource("A"), StateWorld)
           /\ Flushed(bw.w, "A", TRUE)

\* the State s holds a strong reference path to the State t: the "changed"
\* (and "orphaned") listener that t added to its input s is a closure over
\* t, and the RevocableRef of s over its ComputedState input t holds t
\* until it is revoked; a WeakRef holds nothing
Refers(s, t) ==
    \/ /\ t \in built
       /\ \E key \in 1..Len(inputs[t]) : inputs[t][key] = s
    \/ /\ s \in built
       /\ t \in Computed
       /\ \E key \in 1..Len(inputs[s]) : inputs[s][key] = t /\ key \notin revoked[s]

\* the States the garbage collector starts from: those the application
\* holds, and the ComputedStates with an "abort" listener on the
\* collectedSignal of an input whose AbortController the registry still
\* holds (the input is not collected, or its callback has not run yet)
Roots ==
    held \cup {c \in built : \E key \in 1..Len(inputs[c]) :
                   /\ inputs[c][key] \notin Computed
                   /\ inputs[c][key] \notin collected \/ inputs[c][key] \in aborts}

RECURSIVE ReachableFrom(_)
ReachableFrom(found) ==
    LET more == {t \in States \ collected : \E s \in found : Refers(s, t)}
    IN  IF more \subseteq found THEN found ELSE ReachableFrom(found \cup more)

\* the States that a strong reference path leads to
Reachable == ReachableFrom(Roots)

\* the application drops its last reference to a ComputedState
Drop(c) ==
    /\ c \in built \cap held
    /\ held' = held \ {c}
    /\ StateCommit(StateWorld)
    /\ stateOp' = StateOp("release", c, Undef, NoSource, StateWorld)
    /\ UNCHANGED <<collected, aborts>>

\* the garbage collector reclaims a ComputedState that no strong reference
\* path leads to; no ComputedState listens to the collectedSignal of a
\* ComputedState, so that its registry callback changes nothing
Reclaim(c) ==
    /\ c \in built \ (collected \cup Reachable)
    /\ collected' = collected \cup {c}
    /\ StateCommit(StateWorld)
    /\ stateOp' = StateOp("collect", c, Undef, NoSource, StateWorld)
    /\ UNCHANGED <<held, aborts>>

\* ------------------------------------------------------------------ Spec

NoOp == [op |-> "new", obs |-> "-", property |-> "-", value |-> "-",
         source |-> NoSource, ret |-> "undefined", retId |-> 0]

\* the state after the construction of the Observables
Constructed ==
    /\ queue = [o \in Obs |-> <<>>]
    /\ microTaskQueued = [o \in Obs |-> FALSE]
    /\ tasks = <<>>
    /\ nested = [o \in Obs |-> [c \in Obs |-> [has |-> FALSE, props |-> {}]]]
    /\ listeners = [o \in Obs |-> <<>>]
    /\ promises = [o \in Obs |-> [p \in Keys |-> 0]]
    /\ nextPromise = 1
    /\ settled = [i \in 1..MaxPromises |-> NotSettled]
    /\ states = [o \in Obs |-> [p \in Keys |-> "none"]]
    /\ stateId = [o \in Obs |-> [p \in Keys |-> 0]]
    /\ returned = [o \in Obs |-> [p \in Keys |-> {}]]
    /\ last = NoOp
    /\ firedChange = <<>>
    /\ firedChanged = <<>>
    /\ notified = <<>>
    /\ byProperty = <<>>
    /\ observed = <<>>
    /\ tickPure = [o \in Obs |-> TRUE]
    /\ sinceFlush = [o \in Obs |-> <<>>]

NoStateOp == [op |-> "new", state |-> "-", value |-> Undef, source |-> NoSource,
              ret |-> Undef, orphan |-> FALSE]

\* the state after State.value(v) for each WriteableState, with v from the
\* given sets, and the construction of the ComputedStates of one of the
\* given topologies over them
StatesConstructed(initial, topologies) ==
    /\ valueKey \in [States -> {Undef, 2, 3}]
    /\ \A s \in Writeable : valueKey[s] \in initial[s]
    /\ \A c \in Computed : valueKey[c] = Undef
    /\ inputs \in topologies
    /\ built = {c \in Computed : inputs[c] # <<>>}
    /\ state = [c \in Computed |-> "dirty"]
    /\ values = [c \in Computed |-> [key \in 1..Len(inputs[c]) |-> Undef]]
    /\ revoked = [c \in Computed |-> {}]
    /\ held = Writeable \cup built
    /\ collected = {}
    /\ aborts = {}
    /\ stateOp = NoStateOp
    /\ stateChanged = <<>>
    /\ orphanedEvents = <<>>
    /\ invoked = <<>>

\* a behaviour in which no State is constructed
NoStates ==
    StatesConstructed([s \in Writeable |-> {Undef}], {[c \in Computed |-> <<>>]})

\* the construction of "A" over a target with options {children, same} and
\* the registration of a "change" listener that cancels the keys of a veto
\* set; "B" is constructed over an empty target with no options
Configured(targets, modes, children, vetoes) ==
    /\ \E t \in targets :
         target = [o \in Obs |-> IF o = "A" THEN t ELSE [p \in Keys |-> Undefined]]
    /\ \E m \in modes :
         sameMode = [o \in Obs |-> IF o = "A" THEN m ELSE "identity"]
    /\ \E c \in children : trackChildren = [o \in Obs |-> o = "A" /\ c]
    /\ \E v \in vetoes : veto = [o \in Obs |-> IF o = "A" THEN v ELSE {}]

\* a target with one property set
Only(key, v) == [p \in Keys |-> IF p = key THEN v ELSE Undefined]

\* Batching: one Observable, written through its values proxy, flushed by
\* the microtask or by emitQueue()
Init ==
    /\ Constructed
    /\ NoStates
    /\ Configured({Only("p", Undefined), Only("p", "a")}, {"identity", "never"},
                  {FALSE}, {{}, {"q"}})

Next ==
    \/ \E p \in Keys, v \in Prim : Write("A", p, v, ValuesProxy("A"))
    \/ EmitQueueCall("A")
    \/ Flush

Spec == Init /\ [][Next]_vars

\* Adoption: "A" tracks its children, "B" is assigned to and removed from
\* its properties and was, in some behaviours, in the target from the start
InitNested ==
    /\ Constructed
    /\ NoStates
    /\ Configured({Only("p", Undefined), Only("p", "B")}, {"identity"},
                  {TRUE}, {{}})

NextNested ==
    \/ \E p \in StringKeys, v \in {"a", "B"} : Write("A", p, v, ValuesProxy("A"))
    \/ \E v \in Prim : Write("B", "p", v, ValuesProxy("B"))
    \/ \E o \in Obs : EmitQueueCall(o)
    \/ \E keys \in {{}, {"q"}} : Listen("A", keys)
    \/ Flush

SpecNested == InitNested /\ [][NextNested]_vars

\* Adoption with no listener of the application: "B" is assigned to and
\* removed from the properties of "A" while it is written and flushed
NextAdopt ==
    \/ \E p \in StringKeys, v \in {"a", "B"} : Write("A", p, v, ValuesProxy("A"))
    \/ Write("B", "p", "a", ValuesProxy("B"))
    \/ \E o \in Obs : EmitQueueCall(o)
    \/ Flush

SpecAdopt == InitNested /\ [][NextAdopt]_vars

\* Re-entrance and faults: one Observable whose "changed" listener writes
\* back or calls emitQueue(), and whose consolidate hook throws at times
Reactions ==
    {[kind |-> "none", property |-> "-", value |-> "-"],
     [kind |-> "emitQueue", property |-> "-", value |-> "-"],
     [kind |-> "write", property |-> "q", value |-> "b"]}

InitReentrant ==
    /\ Constructed
    /\ NoStates
    /\ Configured({Only("p", Undefined)}, {"identity"}, {FALSE}, {{}})

NextReentrant ==
    \/ \E p \in StringKeys, v \in Prim : Write("A", p, v, ValuesProxy("A"))
    \/ \E reaction \in Reactions, fault \in BOOLEAN :
           EmitQueueCallWith("A", reaction, fault)
    \/ \E reaction \in Reactions, fault \in BOOLEAN : FlushWith(reaction, fault)

SpecReentrant == InitReentrant /\ [][NextReentrant]_vars

\* Re-entrance from the "change" event: one Observable whose "change"
\* listener, when it is registered, normalises "p" to "b"
ChangeReactions ==
    {[kind |-> "none", property |-> "-", value |-> "-"],
     [kind |-> "write", property |-> "p", value |-> "b"]}

InitListened ==
    /\ Constructed
    /\ NoStates
    /\ Configured({Only("p", Undefined), Only("p", "a")}, {"identity"},
                  {FALSE}, {{}, {"q"}})

NextListened ==
    \/ \E p \in StringKeys, v \in Prim, reaction \in ChangeReactions :
           WriteListened("A", p, v, ValuesProxy("A"), reaction)
    \/ EmitQueueCall("A")
    \/ Flush

SpecListened == InitListened /\ [][NextListened]_vars

\* a "changed" listener of the application that only returns
Unmoved == [kind |-> "none", property |-> "-", value |-> "-"]

\* Mutual adoption: "A" and "B" both track their children; "A" is assigned
\* to the property "p" of "B", and "A", "B" and a string to the property
\* "p" of "A"; the host runs
\* every microtask that is queued
InitMutual ==
    /\ Constructed
    /\ NoStates
    /\ target = [o \in Obs |-> [p \in Keys |-> Undefined]]
    /\ sameMode = [o \in Obs |-> "identity"]
    /\ trackChildren = [o \in Obs |-> TRUE]
    /\ veto = [o \in Obs |-> {}]

NextMutual ==
    \/ \E v \in {"a", "A", "B"} : Write("A", "p", v, ValuesProxy("A"))
    \/ Write("B", "p", "A", ValuesProxy("B"))
    \/ FlushWith(Unmoved, FALSE)

SpecMutual == InitMutual /\ [][NextMutual]_vars /\ WF_vars(FlushWith(Unmoved, FALSE))

\* the same Observable with a consolidate hook that never throws, and a
\* host that runs every microtask that is queued
NextReacting ==
    \/ \E p \in StringKeys, v \in Prim : Write("A", p, v, ValuesProxy("A"))
    \/ \E reaction \in Reactions : EmitQueueCallWith("A", reaction, FALSE)
    \/ \E reaction \in Reactions : FlushWith(reaction, FALSE)

SpecReacting ==
    /\ InitReentrant
    /\ [][NextReacting]_vars
    /\ WF_vars(\E reaction \in Reactions : FlushWith(reaction, FALSE))

\* Promises: when() on the keys of one Observable that is written and flushed
InitWhen ==
    /\ Constructed
    /\ NoStates
    /\ Configured({Only("p", Undefined)}, {"identity"}, {FALSE}, {{}})

\* the keys that when() is called with
WhenKeys == {"p", "@s"}

NextWhen ==
    \/ \E p \in WhenKeys, v \in Prim : Write("A", p, v, ValuesProxy("A"))
    \/ Write("A", "q", "a", ValuesProxy("A"))
    \/ \E p \in WhenKeys : When("A", p)
    \/ EmitQueueCall("A")
    \/ Flush

SpecWhen == InitWhen /\ [][NextWhen]_vars

\* States: property() states of one Observable, writeable and read-only,
\* written and read beside the values proxy and the readOnly proxy
InitState ==
    /\ Constructed
    /\ NoStates
    /\ Configured({Only("p", Undefined)}, {"identity"}, {FALSE}, {{}, {"p"}})

\* the keys that property() is called with
StateKeys == {"p", "@s"}

NextState ==
    \/ \E p \in StateKeys, readonly \in BOOLEAN : Property("A", p, readonly)
    \/ \E p \in StateKeys, v \in Prim : StateWrite("A", p, v)
    \/ \E p \in StateKeys : StateRead("A", p)
    \/ \E p \in StateKeys \cup {"q"} : Write("A", p, "a", ValuesProxy("A"))
    \/ \E v \in Prim : ReadOnlyWrite("A", "p", v)
    \/ ReadOnlyRead("A", "p")
    \/ Flush

SpecState == InitState /\ [][NextState]_vars

\* Computed states: a sum over two WriteableStates, a map over one, and a
\* map over that map; the inputs are written, read, released and collected
Topologies ==
    {[c \in Computed |-> IF c = "c" THEN <<"x", "y">> ELSE <<>>],
     [c \in Computed |-> IF c = "c" THEN <<"x">> ELSE <<>>],
     [c \in Computed |-> IF c = "c" THEN <<"x">>
                          ELSE IF c = "d" THEN <<"c">> ELSE <<>>]}

InitComputed ==
    /\ Constructed
    /\ Configured({Only("p", Undefined)}, {"identity"}, {FALSE}, {{}})
    /\ StatesConstructed([s \in Writeable |-> IF s = "x" THEN {Undef, 2} ELSE {Undef, 3}],
                         Topologies)

NextComputed ==
    \/ \E v \in {Undef, 2, 10}, source \in {NoSource, AppSource} : Update("x", v, source)
    \/ \E v \in {Undef, 3} : Update("y", v, NoSource)
    \/ \E s \in States : GetValue(s)
    \/ \E c \in Computed : CheckOrphaned(c)
    \/ \E s \in Writeable : Release(s)
    \/ \E s \in Writeable : Collect(s)
    \/ \E s \in Writeable : Finalize(s)

SpecComputed == InitComputed /\ [][NextComputed]_vars

\* Diamond: two maps over one WriteableState and a sum over the two maps,
\* B = A.map(f), C = A.map(g), D = State.compute(h)(B, C)
Diamond ==
    {[c \in Computed |-> IF c = "e" THEN <<"c", "d">> ELSE <<"x">>]}

InitDiamond ==
    /\ Constructed
    /\ Configured({Only("p", Undefined)}, {"identity"}, {FALSE}, {{}})
    /\ StatesConstructed([s \in Writeable |-> IF s = "x" THEN {Undef, 2} ELSE {Undef}],
                         Diamond)

NextDiamond ==
    \/ \E v \in {Undef, 2, 10}, source \in {NoSource, AppSource} : Update("x", v, source)
    \/ \E s \in States : GetValue(s)

SpecDiamond == InitDiamond /\ [][NextDiamond]_vars

\* A ComputedState over a PropertyState: "A" holds a number in "p", the
\* application derives "c" from the PropertyState of "p", writes numbers
\* to "p" through the values proxy, and reads the two States
InitDerived ==
    /\ Constructed
    /\ Configured({Only("p", "a"), Only("p", "b")}, {"identity"}, {FALSE}, {{}})
    /\ StatesConstructed([s \in Writeable |-> IF s = "x" THEN {Number(v) : v \in Prim}
                                                           ELSE {Undef}],
                         {[c \in Computed |-> <<>>]})
    /\ valueKey["x"] = Number(target["A"]["p"])

NextDerived ==
    \/ Derive
    \/ \E v \in Prim : WriteDerived(v)
    \/ FlushDerived
    \/ \E s \in {"x", "c"} : GetValue(s)

SpecDerived == InitDerived /\ [][NextDerived]_vars

\* The variant with state(): the state of "A".p is bound, and the
\* application writes to the property and to the state
InitBound ==
    /\ Constructed
    /\ NoStates
    /\ Configured({Only("p", Undefined), Only("p", "a")}, {"identity"}, {FALSE}, {{}})

NextBound ==
    \/ BindState
    \/ \E v \in Prim : WriteProperty(v)
    \/ \E v \in Prim : WriteState(v)
    \/ FlushBound

SpecBound == InitBound /\ [][NextBound]_vars

\* Retention: the same States, with ComputedStates that the application
\* drops and that the garbage collector reclaims once nothing leads to them
NextRetain ==
    \/ NextComputed
    \/ \E c \in Computed : Drop(c)
    \/ \E c \in Computed : Reclaim(c)

SpecRetain == InitComputed /\ [][NextRetain]_vars

\* the host runs the registry callback of every collected State
SpecOrphan == SpecComputed /\ WF_vars(\E s \in Writeable : Finalize(s))

\* the ComputedStates that a topology of SpecComputed constructs
Wired == UNION {{c \in Computed : ts[c] # <<>>} : ts \in Topologies}

\* ------------------------------------------------------------------ claims

\* the number of flushes of o that the host has pending
ScheduledIn(ts, o) == Cardinality({i \in 1..Len(ts) : ts[i] = o})
Scheduled(o) == ScheduledIn(tasks, o)

\* the properties of a list of Changes are pairwise distinct
DistinctProperties(changes) ==
    \A i, j \in 1..Len(changes) :
        changes[i].property = changes[j].property => i = j

\* the one "changed" event that delivers changes, or none for an empty list
Delivery(o, changes) ==
    IF changes = <<>> THEN <<>> ELSE <<[obs |-> o, changes |-> changes]>>

\* C1: N writes to N distinct properties of one Observable in one tick, each
\* changing the value, none canceled and with no emitQueue() in between,
\* fire no "changed" event when they are made and exactly one when the
\* deferred flush runs, and that event holds the N Changes in write order.
C1_OneBatchInWriteOrder ==
    [][ /\ last'.op = "set" /\ last'.ret = "true" => firedChanged' = <<>>
        /\ ( /\ last'.op = "flush"
             /\ tickPure[last'.obs]
             /\ sinceFlush[last'.obs] # <<>>
             /\ DistinctProperties(sinceFlush[last'.obs]) )
           => firedChanged' = <<[obs |-> last'.obs,
                                 changes |-> sinceFlush[last'.obs]]>> ]_vars

\* C1 witness: a deferred flush has delivered two writes to two properties
C1_Witness ==
    /\ last.op = "flush"
    /\ Len(firedChanged) = 1
    /\ Len(firedChanged[1].changes) = 2
    /\ firedChanged[1].changes[1].property # firedChanged[1].changes[2].property
    /\ ~firedChanged[1].changes[1].mutation
    /\ ~firedChanged[1].changes[2].mutation

\* C2: at most one deferred flush of an Observable is pending at any time,
\* a non-empty queue always has one pending, the flag tells whether one is
\* pending, and right after a flush of either kind the queue is empty.
C2_OneFlushPerTick ==
    \A o \in Obs :
        /\ Scheduled(o) <= 1
        /\ queue[o] # <<>> => Scheduled(o) = 1
        /\ microTaskQueued[o] <=> Scheduled(o) = 1
        /\ (last.op \in {"flush", "emitQueue"} /\ last.obs = o) => queue[o] = <<>>

\* C2 witness: two enqueues of a tick scheduled one flush, and emitQueue()
\* delivered both and left the queue empty
C2_Witness ==
    /\ last.op = "emitQueue"
    /\ Len(firedChanged) = 1
    /\ Len(firedChanged[1].changes) = 2
    /\ queue[last.obs] = <<>>
    /\ Scheduled(last.obs) = 1

\* the configured equality: identity, or the override that is never true
Equal(o, a, b) == sameMode[o] = "identity" /\ a = b

\* C3: a write of a value equal to the stored one under the configured
\* equality dispatches no "change" event, enqueues nothing, schedules
\* nothing, stores nothing and returns success; under a `same` that is
\* never true a write of the identical value dispatches "change" and,
\* unless that event is canceled, enqueues the Change.
C3_EqualWriteIsNoOp ==
    [][ last'.op = "set" =>
        LET o == last'.obs
            p == last'.property
            v == last'.value
        IN  /\ Equal(o, target[o][p], v) =>
                /\ last'.ret = "true"
                /\ firedChange' = <<>>
                /\ UNCHANGED <<queue, tasks, microTaskQueued, target>>
            /\ (sameMode[o] = "never" /\ target[o][p] = v) =>
                /\ firedChange' = <<[obs |-> o,
                                     change |-> Change(p, v, v, FALSE, last'.source)]>>
                /\ p \notin veto[o] =>
                      /\ last'.ret = "true"
                      /\ queue'[o] = Append(queue[o],
                                            Change(p, v, v, FALSE, last'.source))
                      /\ ScheduledIn(tasks', o) = 1 ]_vars

\* C3 witness: a write of the stored value under identity has returned
C3_Witness ==
    /\ last.op = "set"
    /\ last.ret = "true"
    /\ sameMode[last.obs] = "identity"
    /\ firedChange = <<>>
    /\ target[last.obs][last.property] = last.value
    /\ queue[last.obs] # <<>>

\* C5: emitQueue() delivers the Changes accepted since the last flush in
\* one "changed" event (none when there are none), empties the queue and
\* leaves the pending deferred flush pending; the deferred flush delivers
\* the Changes accepted since the last flush of either kind, in one event,
\* and fires no event when there are none.
C5_EmitQueueKeepsDeferredFlush ==
    [][ /\ last'.op = "emitQueue" =>
            /\ firedChanged' = Delivery(last'.obs, sinceFlush[last'.obs])
            /\ queue'[last'.obs] = <<>>
            /\ UNCHANGED <<tasks, microTaskQueued>>
        /\ last'.op = "flush" =>
            /\ firedChanged' = Delivery(last'.obs, sinceFlush[last'.obs])
            /\ queue'[last'.obs] = <<>> ]_vars

\* C5 witness: emitQueue() has delivered the queue while the deferred flush
\* stays pending
C5_Witness ==
    /\ last.op = "emitQueue"
    /\ firedChanged # <<>>
    /\ microTaskQueued[last.obs]
    /\ Scheduled(last.obs) = 1

\* C4: a write whose "change" event is canceled returns failure and leaves
\* the stored values, the queue, the scheduled flushes and the adoption
\* bookkeeping as they were; no flush changes a stored value afterwards.
C4_CanceledWriteHasNoEffect ==
    [][ /\ ( /\ last'.op = "set"
             /\ ~Equal(last'.obs, target[last'.obs][last'.property], last'.value)
             /\ last'.property \in veto[last'.obs] )
           => /\ last'.ret = "false"
              /\ Len(firedChange') = 1
              /\ UNCHANGED <<target, queue, tasks, microTaskQueued,
                             nested, listeners>>
        /\ last'.op \in {"flush", "emitQueue", "listen"} => UNCHANGED target ]_vars

\* C4 witness: the replacement of an adopted child was canceled
C4_Witness ==
    /\ last.op = "set"
    /\ last.ret = "false"
    /\ target[last.obs][last.property] = "B"
    /\ last.property \in nested[last.obs]["B"].props
    /\ last.value = "a"

\* the properties that a list of Changes touches
Touched(changes) == {changes[i].property : i \in 1..Len(changes)}

\* the step is a flush of either kind
Flushing == last'.op \in {"flush", "emitQueue"}

\* C6: the promise of when(p) is settled once, by the first flush whose
\* batch touches p, with the Change record whose `to` is the value that p
\* holds after that flush, and its entry is removed; a flush whose batch
\* does not touch p leaves it pending.
C6_WhenResolvesWithLastChange ==
    [][ Flushing =>
        \A p \in Keys :
            LET o == last'.obs
                id == promises[o][p]
            IN  id # 0 =>
                IF p \in Touched(sinceFlush[o])
                THEN /\ settled'[id] = [count |-> 1, kind |-> "change",
                                        value |-> target'[o][p]]
                     /\ promises'[o][p] = 0
                ELSE /\ settled'[id] = NotSettled
                     /\ promises'[o][p] = id ]_vars

\* C7: when(p) called while the promise of an earlier when(p) is pending
\* returns that promise and leaves the pending entry as it is.
C7_WhenIsMemoized ==
    [][ (last'.op = "when" /\ promises[last'.obs][last'.property] # 0) =>
            /\ last'.ret = "promise"
            /\ last'.retId = promises[last'.obs][last'.property]
            /\ promises' = promises ]_vars

\* the PropertyState "changed" events of a flush of o: one for each
\* string-keyed property with a memoized state that the batch touches
Notifications(o, batch) ==
    { [obs |-> o, property |-> p, source |-> ObservableSource(o),
       value |-> target[o][p]] :
      p \in {k \in StringKeys \cap Touched(batch) : states[o][k] # "none"} }

C9_StateNotifiedAtFlush ==
    [][ /\ Flushing =>
            \A p \in Keys :
                ( /\ states[last'.obs][p] # "none"
                  /\ p \in Touched(sinceFlush[last'.obs]) )
                => \E i \in 1..Len(notified') :
                      /\ notified'[i].obs = last'.obs
                      /\ notified'[i].property = p
        /\ last'.op \in {"set", "update"} => notified' = <<>> ]_vars

\* C10: a write through the readOnly proxy and a write through a
\* PropertyState created read-only fail with a TypeError, dispatch no
\* "change" event and leave the stored values, the queue and the scheduled
\* flush as they were; a read through either returns the stored value.
C10_ReadOnlyRejectsWrites ==
    [][ /\ ( \/ last'.op = "readOnly.set"
             \/ (last'.op = "update" /\ states[last'.obs][last'.property] = "ro") )
           => /\ last'.ret = "TypeError"
              /\ firedChange' = <<>>
              /\ UNCHANGED <<target, queue, tasks, microTaskQueued>>
        /\ last'.op \in {"readOnly.get", "value"}
           => /\ last'.value = target[last'.obs][last'.property]
              /\ UNCHANGED <<target, queue, tasks, microTaskQueued>> ]_vars

\* C10 witness: a write through a read-only PropertyState has failed while
\* the property held a value and a flush was pending
C10_Witness ==
    /\ last.op = "update"
    /\ last.ret = "TypeError"
    /\ states[last.obs][last.property] = "ro"
    /\ target[last.obs][last.property] = "a"
    /\ last.value = "b"
    /\ queue[last.obs] # <<>>

\* how often the step called the compute function of c
Invocations(c) == Len(SelectSeq(invoked', LAMBDA call : call.state = c))

\* the "changed" events of the State s that the step dispatched
EventsOf(s) == SelectSeq(stateChanged', LAMBDA event : event.state = s)

\* the values the WriteableState inputs of c hold before the step
CurrentInputs(c) == [key \in 1..Len(inputs[c]) |-> valueKey[inputs[c][key]]]

\* c is built over WriteableStates that the application still holds
OverHeldWriteables(c) ==
    /\ c \in built
    /\ \A key \in 1..Len(inputs[c]) : inputs[c][key] \in Writeable \cap held

\* C11: a write of a value not identical to the current one stores it and
\* dispatches, within the write, exactly one "changed" event of the state,
\* which carries the written value and the source the writer gave
\* (undefined when none); a write of the current value stores nothing and
\* dispatches nothing
C11_WriteStoresAndNotifiesOnce ==
    [][stateOp'.op = "update" =>
         LET s == stateOp'.state
             v == stateOp'.value
         IN  IF v # valueKey[s]
             THEN /\ valueKey'[s] = v
                  /\ Len(EventsOf(s)) = 1
                  /\ stateChanged'[1] =
                       [state |-> s, value |-> v, source |-> stateOp'.source]
             ELSE /\ valueKey' = valueKey
                  /\ stateChanged' = <<>>]_vars

C11_Witness ==
    /\ stateOp.op = "update"
    /\ stateOp.source = AppSource
    /\ stateOp.value = 10
    /\ valueKey["x"] = 10
    /\ stateChanged # <<>>
    /\ stateChanged[1].source = AppSource

\* C12: every read of the value of a ComputedState over WriteableStates
\* returns the compute function applied to the current values of all the
\* inputs, in construction order
C12_ReadIsFnOfCurrentInputs ==
    [][\A c \in Computed :
         (stateOp'.op = "value" /\ stateOp'.state = c /\ OverHeldWriteables(c))
             => stateOp'.ret = fn(CurrentInputs(c))]_vars

\* the dirty-to-clean transitions of c in a step: one for every time it
\* was marked dirty (each is followed by a "changed" event of c, whose
\* construction cleans it), and one if a read found it dirty and cleaned it
Transitions(c) ==
    Len(EventsOf(c))
      + (IF stateOp'.op = "value" /\ state[c] = "dirty" /\ state'[c] = "clean"
         THEN 1 ELSE 0)

\* some live input of c has a value that differs from the cached one
InputDiffers(c) ==
    \E key \in 1..Len(inputs[c]) :
        /\ deref(StateWorld, c, key) # None
        /\ StrictlyUnequal(valueKey'[inputs[c][key]], values[c][key])

\* C13 as stated: the compute function is invoked exactly once for every
\* dirty-to-clean transition
C13_ExactlyOncePerTransition ==
    [][\A c \in built : Invocations(c) = Transitions(c)]_vars

\* C13: the compute function is invoked at most once for every
\* dirty-to-clean transition and never by a read that finds the state
\* clean; the read that cleans a dirty state invokes it once if a live
\* input's value differs from the cached one, and not at all otherwise
C13_AtMostOncePerTransition ==
    [][\A c \in built :
         /\ Invocations(c) <= Transitions(c)
         /\ (stateOp'.op = "value" /\ state[c] = "clean") => Invocations(c) = 0
         /\ (stateOp'.op = "value" /\ stateOp'.state = c /\ state[c] = "dirty")
                => Invocations(c) = (IF InputDiffers(c) THEN 1 ELSE 0)]_vars

C13_Witness ==
    /\ stateOp.op = "value"
    /\ stateOp.state = "c"
    /\ state["c"] = "clean"
    /\ invoked = <<[state |-> "c", args |-> <<2, 3>>]>>
    /\ stateOp.ret = 5

\* C14: a "changed" event of an input marks the ComputedState dirty and
\* nothing more: the compute function is not invoked and the state is
\* still dirty when the write returns
C14_MarkingDirtyDoesNotRecompute ==
    [][stateOp'.op = "update" =>
         \A c \in built :
             EventsOf(c) # <<>> => (state'[c] = "dirty" /\ Invocations(c) = 0)]_vars

\* C15: no step takes a ComputedState out of the orphaned state
C15_OrphanedIsTerminal ==
    [][\A c \in built : state[c] = "orphaned" => state'[c] = "orphaned"]_vars

\* C16: when the only input of a ComputedState has been collected and its
\* collection signal is pending, the signal is delivered and the
\* ComputedState is then in the orphaned state
C16_SoleInputCollectedLeadsToOrphaned ==
    \A c \in Wired : \A s \in Writeable :
        (inputs[c] = <<s>> /\ s \in aborts) ~> (state[c] = "orphaned")

C16_Witness ==
    /\ inputs["c"] = <<"x">>
    /\ stateOp.op = "abort"
    /\ stateOp.state = "x"
    /\ state["c"] = "orphaned"
    /\ orphanedEvents # <<>>

\* C17: a step raises the orphaned event of a ComputedState at most once,
\* and only when it takes the state into orphaned from another state
C17_OrphanedRaisedOnTransitionOnly ==
    [][\A c \in built :
         LET raised == Len(SelectSeq(orphanedEvents', LAMBDA e : e = c))
         IN  /\ raised <= 1
             /\ raised = 1 => (state[c] # "orphaned" /\ state'[c] = "orphaned")]_vars

\* the elements of a sequence
Range(s) == {s[i] : i \in 1..Len(s)}

\* the step dispatched the "changed" event of the Observable c
DispatchedChanged(c) == \E i \in 1..Len(firedChanged') : firedChanged'[i].obs = c

\* C18: with structural tracking, every "changed" event of an Observable
\* that is the value of a property of the parent, assigned or present in
\* the initial target, makes the parent enqueue the Change {property,
\* from: child, to: child, mutation: true} unless its "change" event is
\* canceled
C18_ChildChangedReachesParent ==
    [][\A c \in Obs : DispatchedChanged(c) =>
         \A o \in Obs \ {c} : \A p \in Keys :
             (trackChildren[o] /\ target[o][p] = c /\ p \notin veto[o])
                 => Change(p, c, c, TRUE, ObservableSource(c)) \in Range(queue'[o])]_vars

\* the Changes the step appended to the queue of o
Appended(o) ==
    IF Len(queue'[o]) > Len(queue[o])
    THEN {queue'[o][i] : i \in (Len(queue[o]) + 1)..Len(queue'[o])}
    ELSE {}

\* C19: the parent is subscribed to a child for p exactly if the
\* bookkeeping entry of the child names p, and then p holds the child; the
\* entry exists exactly if it names some property; the write that replaces
\* the child at p ends the subscription for p and leaves those for the
\* other properties alone; and a notification of a child enqueues a
\* mutation for no property that does not hold it
C19_DisownOnReplacement ==
    [][\A o, c \in Obs :
         /\ nested'[o][c].has <=> nested'[o][c].props # {}
         /\ \A p \in Keys :
              /\ <<o, p>> \in Range(listeners'[c]) <=> p \in nested'[o][c].props
              /\ p \in nested'[o][c].props => target'[o][p] = c
              /\ (target[o][p] = c /\ target'[o][p] # c) =>
                    /\ <<o, p>> \notin Range(listeners'[c])
                    /\ \A q \in Keys \ {p} :
                          q \in nested'[o][c].props <=> q \in nested[o][c].props
         /\ \A change \in Appended(o) :
              (change.mutation /\ change.source = ObservableSource(c))
                  => target[o][change.property] = c]_vars

C19_Witness ==
    /\ last.op = "set"
    /\ last.obs = "A"
    /\ last.property = "q"
    /\ \E i \in 1..Len(sinceFlush["A"]) :
           sinceFlush["A"][i] = Change("q", "B", "a", FALSE, ValuesProxy("A"))
    /\ target["A"] = [Only("p", "B") EXCEPT !["q"] = "a"]
    /\ nested["A"]["B"] = [has |-> TRUE, props |-> {"p"}]
    /\ listeners["B"] = <<<<"A", "p">>>>

\* the accepted writes of the tick to the property p of o
WritesTo(o, p) == SelectSeq(sinceFlush[o], LAMBDA change : change.property = p)

C21_BatchIsCommitted ==
    [][\A i \in 1..Len(firedChanged') :
         LET o == firedChanged'[i].obs
             changes == firedChanged'[i].changes
         IN  /\ changes = sinceFlush[o]
             /\ \A p \in Touched(changes) :
                    target[o][p] = LastTo(changes, Len(changes), p)]_vars

\* C22: a write of a value that differs from the stored one dispatches the
\* "change" event of that write once, and its listeners find the old
\* value stored and the queue without the Change of the write; a write of
\* an equal value dispatches none
C22_ChangeBeforeCommit ==
    [][last'.op = "set" =>
         LET o == last'.obs
             p == last'.property
             old == target[o][p]
             change == Change(p, old, last'.value, FALSE, last'.source)
         IN  IF Equal(o, old, last'.value)
             THEN firedChange' = <<>>
             ELSE /\ firedChange' = <<[obs |-> o, change |-> change]>>
                  /\ observed' = <<[stored |-> old, queue |-> queue[o]]>>]_vars

C22_Witness ==
    /\ last.op = "set"
    /\ last.ret = "true"
    /\ firedChange = <<[obs |-> "A",
                        change |-> Change("p", "a", "b", FALSE, ValuesProxy("A"))]>>
    /\ observed = <<[stored |-> "a", queue |-> <<>>]>>
    /\ target["A"]["p"] = "b"
    /\ queue["A"] = <<Change("p", "a", "b", FALSE, ValuesProxy("A"))>>

\* C23: a flush leaves in the queue none of the Changes it found there,
\* whether the delivery of the batch ended in a fault or not
C23_FlushEmptiesTheSlice ==
    [][Flushing =>
         \A i \in 1..Len(queue[last'.obs]) :
             queue[last'.obs][i] \notin Range(queue'[last'.obs])]_vars

\* the last operation committed the value to the property: it enqueued a
\* Change to that value and stored it
Committed(o, p, v) ==
    \E i \in 1..Len(firedChange) :
        /\ firedChange[i].obs = o
        /\ firedChange[i].change.property = p
        /\ firedChange[i].change.to = v
        /\ p \notin veto[o]
        /\ target[o][p] = v

\* a "changed" event of the last operation carried a Change of the
\* property to the value
Delivered(o, p, v) ==
    \E i \in 1..Len(firedChanged) :
        /\ firedChanged[i].obs = o
        /\ \E j \in 1..Len(firedChanged[i].changes) :
               /\ firedChanged[i].changes[j].property = p
               /\ firedChanged[i].changes[j].to = v

\* C26: every write that commits a new value to an Observable is
\* eventually delivered in a "changed" event of that Observable, writes
\* made by a "changed" listener during a flush included
C26_CommittedIsDelivered ==
    \A p \in StringKeys : \A v \in Prim :
        Committed("A", p, v) ~> Delivered("A", p, v)

\* C27: no two "changed" events that an Observable dispatches in one step
\* carry the same Change record
C27_DeliveredOnce ==
    [][\A i, j \in 1..Len(firedChanged') :
         (i < j /\ firedChanged'[i].obs = firedChanged'[j].obs)
             => Range(firedChanged'[i].changes)
                   \cap Range(firedChanged'[j].changes) = {}]_vars

\* every input of the ComputedState d is a ComputedState in the orphaned state
AllInputsOrphaned(d) ==
    /\ d \in built
    /\ \A key \in 1..Len(inputs[d]) :
           inputs[d][key] \in Computed /\ state[inputs[d][key]] = "orphaned"

\* C28: once every input of a ComputedState, all of them ComputedStates,
\* is orphaned, the ComputedState becomes orphaned itself and raises its
\* orphaned event
C28_OrphaningCascades ==
    \A d \in Wired :
        AllInputsOrphaned(d)
            ~> (state[d] = "orphaned" /\ d \in Range(orphanedEvents))

\* the sources of the Changes to o[p] that the "changed" events of the
\* step carry
SourcesOf(o, p) ==
    UNION {{firedChanged'[k].changes[j].source :
               j \in {n \in 1..Len(firedChanged'[k].changes) :
                         firedChanged'[k].changes[n].property = p}} :
              k \in {m \in 1..Len(firedChanged') : firedChanged'[m].obs = o}}

\* the "changed" events of PropertyStates carry the source of a write of
\* the property they report
PropertyStateEventsCarryTheSource ==
    \A i \in 1..Len(notified') :
        notified'[i].source \in SourcesOf(notified'[i].obs, notified'[i].property)

\* the "changed" events that follow WriteableState.update(v, s) carry s
UpdateEventsCarryTheSource ==
    stateOp'.op = "update" =>
        \A i \in 1..Len(stateChanged') : stateChanged'[i].source = stateOp'.source

\* C29: every "changed" event of a State carries the source of the write
\* that caused it: the source given to observable.set for the event of the
\* PropertyState, the source given to WriteableState.update for the events
\* of the ComputedStates downstream
C29_StateEventsCarryTheSource ==
    [][PropertyStateEventsCarryTheSource /\ UpdateEventsCarryTheSource]_vars

\* C25: the calls of property() with one key have all returned the same
\* PropertyState, and calls with different keys have returned different ones
C25_PropertyIsMemoized ==
    /\ \A o \in Obs : \A p \in Keys : Cardinality(returned[o][p]) <= 1
    /\ \A o1, o2 \in Obs : \A p1, p2 \in Keys :
           <<o1, p1>> # <<o2, p2>> => returned[o1][p1] \cap returned[o2][p2] = {}

C25_Witness ==
    /\ returned["A"]["p"] = {1}
    /\ returned["A"]["@s"] = {2}
    /\ last.op = "property"
    /\ last.property = "p"
    /\ last.retId = 1

\* C30: the flush that resolves a promise removes its entry; when(p) with
\* no entry for p creates a promise that no earlier call returned, pending;
\* a pending promise of a string key is resolved by the next flush whose
\* batch touches the key, with the value last written in that batch, and
\* a resolved promise is not resolved again
C30_ResolvedPromiseIsReplaced ==
    [][/\ \A id \in 1..MaxPromises : settled[id].count > 0 => settled'[id] = settled[id]
       /\ Flushing =>
            \A p \in Keys :
                LET o == last'.obs
                    id == promises[o][p]
                IN  id # 0 =>
                      /\ settled'[id].count > 0 => promises'[o][p] = 0
                      /\ (p \in StringKeys \cap Touched(queue[o])) =>
                            /\ settled'[id].count = 1
                            /\ settled'[id].value = LastTo(queue[o], Len(queue[o]), p)
                      /\ p \notin Touched(queue[o]) =>
                            /\ settled'[id] = NotSettled
                            /\ promises'[o][p] = id
       /\ (last'.op = "when" /\ promises[last'.obs][last'.property] = 0) =>
            LET id == last'.retId
            IN  /\ last'.ret = "promise"
                /\ promises' = [promises EXCEPT ![last'.obs][last'.property] = id]
                /\ settled'[id] = NotSettled
                /\ \A o \in Obs : \A p \in Keys : promises[o][p] # id
                /\ \A other \in 1..MaxPromises : settled[other].count > 0 => other # id]_vars

C30_Witness ==
    /\ last.op = "flush"
    /\ promises["A"]["p"] = 0
    /\ settled[1] = [count |-> 1, kind |-> "value", value |-> "a"]
    /\ settled[2] = [count |-> 1, kind |-> "value", value |-> "b"]
    /\ target["A"]["p"] = "b"

\* C24: the wiring of the dependency graph retains nothing: a State that
\* the application no longer holds, and that is not collected yet, is at
\* the end of no strong reference path, whatever States upstream or
\* downstream of it are alive
C24_WiringRetainsNothing ==
    \A s \in (Writeable \cup built) \ (held \cup collected) : s \notin Reachable

\* C33: a call of set that does not return success leaves the stored
\* values and the pending queues as they were
C33_SetIsAllOrNothing ==
    [][(last'.op = "set" /\ last'.ret # "true") =>
          (target' = target /\ queue' = queue)]_vars

\* C37: the PropertyState that property(p, {readonly: true}) returns is a
\* read-only one, whatever calls of property(p) came before, and a write
\* through a read-only PropertyState is rejected and stores nothing
C37_ReadonlyRequestIsReadonly ==
    [][/\ (last'.op = "property" /\ last'.value = "readonly") =>
              states'[last'.obs][last'.property] = "ro"
       /\ (last'.op = "update" /\ states[last'.obs][last'.property] = "ro") =>
              (last'.ret = "TypeError" /\ target' = target /\ queue' = queue)]_vars

\* C38: a flush delivers to the memoized PropertyState and to the pending
\* promise of every property that its batch touches, string or symbol
C38_EveryKeyIsDelivered ==
    [][Flushing =>
         \A p \in Touched(queue[last'.obs]) :
             LET o == last'.obs
                 id == promises[o][p]
             IN  /\ states[o][p] # "none" =>
                       \E i \in 1..Len(notified') :
                           notified'[i].obs = o /\ notified'[i].property = p
                 /\ id # 0 => (settled'[id].count = 1 /\ promises'[o][p] = 0)]_vars

\* C31: a ComputedState becomes clean only in a step that applies its
\* compute function, and the first application is to the values its
\* inputs hold, undefined included
C31_CleanOnlyAfterCompute ==
    [][\A c \in built :
         (state[c] = "dirty" /\ state'[c] = "clean") =>
             \E i \in 1..Len(invoked') :
                 /\ invoked'[i].state = c
                 /\ OverHeldWriteables(c) =>
                        invoked'[i].args =
                            [key \in 1..Len(inputs[c]) |-> valueKey'[inputs[c][key]]]]_vars

\* the value of the sum D over the maps B and C of a diamond when both
\* maps are computed from the value v of A
OfOneValue(v) == fn(<<fn(<<v>>), fn(<<v>>)>>)

\* C35: in the diamond, a write of a defined value to A invokes the compute
\* function of D only with the values of B and C for the written value, every "changed"
\* event of D carries the value built from them, and D dispatches one
\* "changed" event for the write
C35_DiamondIsGlitchFree ==
    [][(stateOp'.op = "update" /\ valueKey'["x"] # valueKey["x"] /\ valueKey'["x"] >= 0) =>
         /\ \A i \in 1..Len(invoked') :
                invoked'[i].state = "e" =>
                    invoked'[i].args = <<fn(<<valueKey'["x"]>>), fn(<<valueKey'["x"]>>)>>
         /\ \A i \in 1..Len(EventsOf("e")) :
                EventsOf("e")[i].value = OfOneValue(valueKey'["x"])
         /\ Len(EventsOf("e")) = 1]_vars

\* C32: the Changes of one property that one flush delivers chain: among
\* the records of property p with mutation = false of a "changed" event,
\* in the order of the event, the `from` of each is the `to` of the one
\* before it, also when a "change" listener wrote to p during the dispatch
\* of the "change" event of an outer write to p.
Chains(changes) ==
    \A i \in 2..Len(changes) : changes[i].from = changes[i - 1].to

C32_DeliveredChangesChain ==
    [][Flushing =>
        \A i \in 1..Len(firedChanged') : \A p \in Keys :
            Chains(SelectSeq(firedChanged'[i].changes,
                             LAMBDA change : change.property = p /\ ~change.mutation))]_vars

\* C34: when the application stops writing, the Observables become
\* quiescent and stay so: no flush is scheduled and every queue is empty,
\* whatever the Observables hold, each other and themselves included.
Quiescent ==
    /\ tasks = <<>>
    /\ \A o \in Obs : queue[o] = <<>> /\ ~microTaskQueued[o]

C34_EventuallyQuiescent ==
    <>[][last'.op # "set"]_vars => <>[]Quiescent

\* C36: a read of the value of a ComputedState over the PropertyState of
\* "A".p returns the compute function applied to the value the
\* PropertyState reports at the time of the read, which is the value
\* that the property holds.
C36_DerivedValueIsCurrent ==
    [][(stateOp'.op = "value" /\ stateOp'.state = "c") =>
          /\ valueKey'["x"] = Number(target'["A"]["p"])
          /\ stateOp'.ret = fn(<<Number(target'["A"]["p"])>>)]_vars

\* C39: in the variant with state(), a flush that leaves no write pending
\* leaves the value of the bound state equal to the value of the property,
\* and a step dispatches at most one StateChangedEvent for each write it
\* handles.
C39_BindingConverges ==
    [][(last'.op = "flush" /\ states["A"]["p"] # "none") =>
          /\ (tasks' = <<>> /\ queue'["A"] = <<>>)
                 => valueKey'["x"] = Number(target'["A"]["p"])
          /\ Len(stateChanged') <= Len(queue["A"])]_vars

====
